---- MODULE Spec2Model ----
(***************************************************************************)
(* Model of lib/backends/sdc/networks.js: the fabric provisioner           *)
(* (createNetwork) run by concurrent requests against one NAPI service,    *)
(* and the identity resolver (findNetworkOrPoolByNameOrId) over the        *)
(* resource search (getNetworksOrPools).                                   *)
(*                                                                         *)
(* A remote call is issued by the handler that precedes it (it is appended *)
(* to the request's call log and the request waits in the state named      *)
(* after the call); the action named <call>Done is the service processing  *)
(* the call atomically together with the callback that handles the answer. *)
(* Node runs a callback to completion, so everything a callback does       *)
(* synchronously (later pipeline stages that issue no call, the cleanup    *)
(* decision, the caller's callback) is part of the same action.            *)
(***************************************************************************)
EXTENDS Integers, Sequences, FiniteSets, TLC

VARIABLES
    napiVlans,     \* fabric VLANs of the account held by the service
    otherCreates,  \* VLAN creations done so far by third parties
    reqs,          \* the createNetwork requests: closure state of each
    find           \* the findNetworkOrPoolByNameOrId call

vars == <<napiVlans, otherCreates, reqs, find>>

\* ---------------------------------------------------------------- bounds

\* The extra records with the id of another VLAN that an account may hold.
MaxDuplicates == 2

\* Third-party VLAN creations that may race with the requests.
MaxOtherCreates == 1

\* The longest run of ids 2..n among the accounts whose free ids are scanned.
MaxRunEnd == 21

\* ------------------------------------------------------ program constants

VLAN_ID_LIMIT == 1024
MAX_FREE_VLAN_IDS == 10
RESERVED_VLAN_ID == 1
HALF_ID_LEN == 32

\* JavaScript `undefined` where a number is expected (valid ids are >= 0).
Undefined == 0 - 1

\* ------------------------------------------------------------ JS helpers

Min(a, b) == IF a < b THEN a ELSE b

RECURSIVE DecimalString(_)
\* String(n) for a non-negative integer, as a sequence of digits.
DecimalString(n) ==
    IF n < 10 THEN <<n>> ELSE Append(DecimalString(n \div 10), n % 10)

\* a < b for two strings compared by code unit, as Array.prototype.sort does.
StringLess(a, b) ==
    \E i \in 1..(Min(Len(a), Len(b)) + 1) :
        /\ \A j \in 1..(i - 1) : a[j] = b[j]
        /\ i <= Len(b)
        /\ (i <= Len(a) => a[i] < b[i])

\* The comparison of the default sort: elements are compared as strings.
DefaultSortLess(x, y) == StringLess(DecimalString(x), DecimalString(y))

RECURSIVE InsertSorted(_, _)
InsertSorted(s, x) ==
    IF s = <<>> THEN <<x>>
    ELSE IF DefaultSortLess(x, Head(s)) THEN <<x>> \o s
    ELSE <<Head(s)>> \o InsertSorted(Tail(s), x)

RECURSIVE JsSort(_)
\* vlans.map(...).sort(): no comparator, so the ids are ordered as strings.
JsSort(s) == IF s = <<>> THEN <<>> ELSE InsertSorted(JsSort(Tail(s)), Head(s))

RECURSIVE ListRange(_, _, _)
\* The vlan_id of the VLAN records with an id within lo..hi, by ascending id,
\* one entry for each record.
ListRange(vlans, lo, hi) ==
    IF \A v \in vlans : v.vlan_id < lo \/ v.vlan_id > hi THEN <<>>
    ELSE IF lo = hi
    THEN [i \in 1..Cardinality({v \in vlans : v.vlan_id = lo}) |-> lo]
    ELSE LET mid == (lo + hi) \div 2
         IN  ListRange(vlans, lo, mid) \o ListRange(vlans, mid + 1, hi)

\* The service lists the VLAN records of the account by ascending id; VLAN
\* ids range from 0 through to 1023.
ListVlanIds(vlans) == ListRange(vlans, 0, VLAN_ID_LIMIT - 1)

\* takenVlanIds[i] with a 0-based index; out of range reads undefined.
At(s, i) == IF i >= 0 /\ i < Len(s) THEN s[i + 1] ELSE Undefined

\* What the scan yields when assert.ok(takenIdx < 1024) throws.
AssertionFailed == 0 - 2

RECURSIVE SkipDuplicatesAssertTooStrict(_, _, _)
SkipDuplicatesAssertTooStrict(taken, id, takenIdx) ==
    IF At(taken, takenIdx) = id
    THEN IF takenIdx < 1
         THEN SkipDuplicatesAssertTooStrict(taken, id, takenIdx + 1)
         ELSE AssertionFailed
    ELSE takenIdx

RECURSIVE SkipDuplicates(_, _, _)
\* while (id === takenVlanIds[takenIdx]) { assert.ok(takenIdx < 1024);
\* takenIdx += 1; }
SkipDuplicates(taken, id, takenIdx) ==
    IF At(taken, takenIdx) = id
    THEN IF takenIdx < VLAN_ID_LIMIT
         THEN SkipDuplicates(taken, id, takenIdx + 1)
         ELSE AssertionFailed
    ELSE takenIdx

RECURSIVE ScanFreeVlanIdsReservedNotSkipped(_, _, _, _)
ScanFreeVlanIdsReservedNotSkipped(taken, id, takenIdx, freeVlanIds) ==
    IF ~(id < VLAN_ID_LIMIT /\ Len(freeVlanIds) < MAX_FREE_VLAN_IDS)
    THEN freeVlanIds
    ELSE LET id2 == id + 1 IN
         IF id2 = At(taken, takenIdx)
         THEN LET next == SkipDuplicates(taken, id2, takenIdx + 1) IN
              IF next = AssertionFailed THEN <<AssertionFailed>>
              ELSE ScanFreeVlanIdsReservedNotSkipped(taken, id2, next,
                                                     freeVlanIds)
         ELSE ScanFreeVlanIdsReservedNotSkipped(taken, id2, takenIdx,
                                                Append(freeVlanIds, id2))

RECURSIVE ScanFreeVlanIds(_, _, _, _)
\* The while loop of findFreeFabricVlanId; a failed assertion leaves no list.
ScanFreeVlanIds(taken, id, takenIdx, freeVlanIds) ==
    IF ~(id < VLAN_ID_LIMIT /\ Len(freeVlanIds) < MAX_FREE_VLAN_IDS)
    THEN freeVlanIds
    ELSE LET id2 == id + 1 IN
         IF id2 = RESERVED_VLAN_ID
         THEN ScanFreeVlanIds(taken, id2, takenIdx, freeVlanIds)
         ELSE IF id2 = At(taken, takenIdx)
         THEN LET next == SkipDuplicates(taken, id2, takenIdx + 1) IN
              IF next = AssertionFailed THEN <<AssertionFailed>>
              ELSE ScanFreeVlanIds(taken, id2, next, freeVlanIds)
         ELSE ScanFreeVlanIds(taken, id2, takenIdx, Append(freeVlanIds, id2))

\* freeVlanIds computed from the list answered by listFabricVLANs.
FreeVlanIds(vlanIdList) == ScanFreeVlanIds(JsSort(vlanIdList), 0 - 1, 0, <<>>)

\* ------------------------------------------------------- ids and errors

\* Two 32-character halves of a docker network id.
HalfA == [i \in 1..HALF_ID_LEN |-> IF i % 2 = 1 THEN "a" ELSE "b"]

HalfB == [i \in 1..HALF_ID_LEN |-> IF i % 3 = 0 THEN "b" ELSE "a"]

\* A uuid: 32 characters with dashes after 8, 12, 16 and 20 of them.
UuidOf(h) ==
    SubSeq(h, 1, 8) \o <<"-">> \o SubSeq(h, 9, 12) \o <<"-">>
        \o SubSeq(h, 13, 16) \o <<"-">> \o SubSeq(h, 17, 20) \o <<"-">>
        \o SubSeq(h, 21, 32)

IsNotDash(c) == c # "-"

\* utils.networkUuidToDockerId: the uuid without dashes, doubled.
NetworkUuidToDockerId(uuid) ==
    SelectSeq(uuid, IsNotDash) \o SelectSeq(uuid, IsNotDash)

\* uuids the service gives to the networks it creates.
NetworkUuids == {UuidOf(HalfA), UuidOf(HalfB)}

\* An error object: statusCode is that of the HTTP answer (0 when there is
\* none), ident the identifier an error of the resolver carries.
Error(name, message, cause, statusCode, ident) ==
    [name |-> name, message |-> message, cause |-> cause,
     statusCode |-> statusCode, ident |-> ident]

NoErr == Error("null", "", "", 0, <<>>)

\* An error answered by the NAPI client, other than a 404.
NapiError(message) == Error("NapiError", message, "", 503, <<>>)

\* The 404 answered by the NAPI client.
NapiNotFound == Error("NapiError", "not found", "", 404, <<>>)

VLAN_IN_USE == "VLAN ID is already in use"

\* errors.napiErrorWrap(err, message)
NapiErrorWrap(err, message) ==
    Error("NapiWrappedError", message, err.message, err.statusCode, <<>>)

ValidationError(message) == Error("ValidationError", message, "", 0, <<>>)

DockerError(message) == Error("DockerError", message, "", 0, <<>>)

\* errors.AmbiguousDockerNetworkIdPrefixError(name)
AmbiguousDockerNetworkIdPrefixError(ident) ==
    Error("AmbiguousDockerNetworkIdPrefixError", "", "", 0, ident)

\* errors.NetworkNotFoundError(name)
NetworkNotFoundError(ident) == Error("NetworkNotFoundError", "", "", 0, ident)

\* ------------------------------------------------- createNetwork: labels

\* payload.Labels['triton.network.vlan_id'] as a JavaScript value.
NoLabel == [type |-> "undefined", chars |-> <<>>, num |-> 0]

StringLabel(chars) == [type |-> "string", chars |-> chars, num |-> 0]

NumberLabel(n) == [type |-> "number", chars |-> <<>>, num |-> n]

DigitChars == <<"0", "1", "2", "3", "4", "5", "6", "7", "8", "9">>

IsDigit(c) == \E i \in 1..10 : DigitChars[i] = c

DigitVal(c) == (CHOOSE i \in 1..10 : DigitChars[i] = c) - 1

RECURSIVE DigitsValue(_)
DigitsValue(cs) ==
    IF cs = <<>> THEN 0
    ELSE 10 * DigitsValue(SubSeq(cs, 1, Len(cs) - 1)) + DigitVal(cs[Len(cs)])

AllDigits(cs) == cs # <<>> /\ \A i \in 1..Len(cs) : IsDigit(cs[i])

\* Number(vlanIdStr) for strings of digits, '-' and letters.
JsNumber(cs) ==
    IF cs = <<>> THEN [nan |-> FALSE, value |-> 0]
    ELSE IF AllDigits(cs) THEN [nan |-> FALSE, value |-> DigitsValue(cs)]
    ELSE IF Head(cs) = "-" /\ AllDigits(Tail(cs))
    THEN [nan |-> FALSE, value |-> 0 - DigitsValue(Tail(cs))]
    ELSE [nan |-> TRUE, value |-> 0]

\* if (vlanIdStr): undefined, '' and 0 are falsy.
JsTruthy(label) ==
    \/ label.type = "string" /\ label.chars # <<>>
    \/ label.type = "number" /\ label.num # 0

\* The labels a request may carry.
Labels ==
    {NoLabel, StringLabel(<<"0">>), StringLabel(<<"2">>), StringLabel(<<"1">>),
     StringLabel(<<"-", "2">>), StringLabel(<<"a">>),
     NumberLabel(0), NumberLabel(2)}

\* req.body: whether ipaddr.createCIDR accepts IPRange || Subnet.
Payloads == {[cidrOk |-> TRUE], [cidrOk |-> FALSE]}

\* ---------------------------------------------- createNetwork: pipeline

Reqs == {1, 2}

\* A remote call as it is issued; outcome records the answer of the service
\* ("ok", "in use" or "error") once it has answered.
Call(op, arg) == [op |-> op, arg |-> arg, outcome |-> "pending"]

\* The service answers the outstanding call op of the request.
Answered(s, op, outcome) ==
    LET i == CHOOSE j \in 1..Len(s.calls) :
                 s.calls[j].op = op /\ s.calls[j].outcome = "pending"
    IN  [s EXCEPT !.calls[i].outcome = outcome]

\* The closure variables of createNetwork before the call; vlanDeleted, listed
\* (the vlan ids listFabricVLANs answered), calls and callbacks record what
\* happened.
IdleReq ==
    [pc |-> "idle",
     vlanIdStr |-> NoLabel,
     payload |-> [cidrOk |-> TRUE],
     vlanId |-> Undefined,
     createdFabricVlan |-> FALSE,
     ctx |-> [fabricVlanId |-> Undefined, fabricVlan |-> FALSE,
              freeVlanIds |-> <<>>, fabricNetwork |-> <<>>],
     idx |-> 0,
     err |-> NoErr,
     pending |-> {},
     cleanupErr |-> NoErr,
     vlanDeleted |-> FALSE,
     listed |-> <<>>,
     calls |-> <<>>,
     callbacks |-> <<>>]

\* callback(err, result)
Callback(s, err, result) ==
    [s EXCEPT !.pc = "done",
              !.callbacks = Append(@, [err |-> err, result |-> result])]

RemoveFabricNetworkNeededAlways(s) == TRUE

\* removeFabricNetwork: if (!ctx.fabricNetwork) next();
RemoveFabricNetworkNeeded(s) == s.ctx.fabricNetwork # <<>>

RemoveFabricVLANNeededAnyVlan(s) == s.ctx.fabricVlan

RemoveFabricVLANNeededAlways(s) == TRUE

\* removeFabricVLAN: if (!createdFabricVlan) next();
RemoveFabricVLANNeeded(s) == s.createdFabricVlan

OnCleanupDeletionError(s, dErr) ==
    Callback(s, IF dErr # NoErr THEN dErr ELSE s.err, <<>>)

OnCleanupNoCallback(s, dErr) == [s EXCEPT !.pc = "cleaned"]

\* onCleanup: callback with the original create network error.
OnCleanup(s, dErr) == Callback(s, s.err, <<>>)

PipelineDoneEarlyCallback(s, err) ==
    IF err = NoErr
    THEN Callback(s, NoErr, NetworkUuidToDockerId(s.ctx.fabricNetwork))
    ELSE LET delVlan == IF RemoveFabricVLANNeeded(s)
                        THEN <<Call("deleteFabricVLAN", s.ctx.fabricVlanId)>>
                        ELSE <<>>
         IN  Callback([s EXCEPT !.err = err, !.calls = @ \o delVlan],
                      err, <<>>)

\* The completion function of the pipeline.
PipelineDone(s, err) ==
    IF err = NoErr
    THEN Callback(s, NoErr, NetworkUuidToDockerId(s.ctx.fabricNetwork))
    ELSE LET delNet == IF RemoveFabricNetworkNeeded(s)
                       THEN <<Call("deleteFabricNetwork", s.ctx.fabricVlanId)>>
                       ELSE <<>>
             delVlan == IF RemoveFabricVLANNeeded(s)
                        THEN <<Call("deleteFabricVLAN", s.ctx.fabricVlanId)>>
                        ELSE <<>>
             t == [s EXCEPT !.err = err]
         IN  IF delNet \o delVlan = <<>>
             THEN OnCleanup(t, NoErr)
             ELSE [t EXCEPT !.pc = "cleanup",
                            !.cleanupErr = NoErr,
                            !.pending = {(delNet \o delVlan)[i].op :
                                            i \in 1..Len(delNet \o delVlan)},
                            !.calls = @ \o delNet \o delVlan]

\* Stage createFabricNetwork up to the remote call.
CreateFabricNetworkStage(s) ==
    IF ~s.payload.cidrOk
    THEN PipelineDone(s, ValidationError("Invalid Subnet or IPRange"))
    ELSE [s EXCEPT !.pc = "createFabricNetwork",
                   !.calls = Append(@, Call("createFabricNetwork",
                                            s.ctx.fabricVlanId))]

\* The callback of napi.createFabricNetwork.
CreateFabricNetworkCb(s, err, result) ==
    IF err # NoErr
    THEN PipelineDone(s, NapiErrorWrap(err, "Unable to create network"))
    ELSE PipelineDone([s EXCEPT !.ctx.fabricNetwork = result], NoErr)

\* forEachPipeline calls func for the input at position idx.
CreateFabricVlanTry(s, idx) ==
    [s EXCEPT !.pc = "createFabricVLAN",
              !.idx = idx,
              !.calls = Append(@, Call("createFabricVLAN",
                                       s.ctx.freeVlanIds[idx]))]

\* Stage createFabricVlan up to the first remote call.
CreateFabricVlanStage(s) ==
    IF s.ctx.fabricVlan THEN CreateFabricNetworkStage(s)
    ELSE IF Len(s.ctx.freeVlanIds) = 0 THEN [s EXCEPT !.pc = "crashed"]
    ELSE CreateFabricVlanTry(s, 1)

CreateFabricVLANCbNoEarlyAbort(s, err) ==
    LET id == s.ctx.freeVlanIds[s.idx]
        t == IF err = NoErr
             THEN [s EXCEPT !.ctx.fabricVlanId = id, !.ctx.fabricVlan = TRUE,
                            !.createdFabricVlan = TRUE]
             ELSE s
    IN  IF err # NoErr /\ err.message # VLAN_IN_USE
        THEN PipelineDone(s, NapiErrorWrap(err, "Unable to create fabric vlan"))
        ELSE IF s.idx < Len(s.ctx.freeVlanIds)
        THEN CreateFabricVlanTry(t, s.idx + 1)
        ELSE IF ~t.createdFabricVlan
        THEN PipelineDone(t,
                 DockerError("No available VLAN for network creation"))
        ELSE CreateFabricNetworkStage(t)

CreateFabricVLANCbConflictIsSuccess(s, err) ==
    LET id == s.ctx.freeVlanIds[s.idx] IN
    IF err = NoErr \/ err.message = VLAN_IN_USE
    THEN CreateFabricNetworkStage(
             [s EXCEPT !.ctx.fabricVlanId = id, !.ctx.fabricVlan = TRUE,
                       !.createdFabricVlan = TRUE])
    ELSE PipelineDone(s, NapiErrorWrap(err, "Unable to create fabric vlan"))

CreateFabricVLANCbErrorRetried(s, err) ==
    LET id == s.ctx.freeVlanIds[s.idx] IN
    IF err = NoErr
    THEN CreateFabricNetworkStage(
             [s EXCEPT !.ctx.fabricVlanId = id, !.ctx.fabricVlan = TRUE,
                       !.createdFabricVlan = TRUE])
    ELSE IF s.idx < Len(s.ctx.freeVlanIds)
    THEN CreateFabricVlanTry(s, s.idx + 1)
    ELSE PipelineDone(s,
             DockerError("No available VLAN for network creation"))

CreateFabricVLANCbExhaustionIgnored(s, err) ==
    LET id == s.ctx.freeVlanIds[s.idx] IN
    IF err = NoErr
    THEN CreateFabricNetworkStage(
             [s EXCEPT !.ctx.fabricVlanId = id, !.ctx.fabricVlan = TRUE,
                       !.createdFabricVlan = TRUE])
    ELSE IF err.message = VLAN_IN_USE
    THEN IF s.idx < Len(s.ctx.freeVlanIds)
         THEN CreateFabricVlanTry(s, s.idx + 1)
         ELSE CreateFabricNetworkStage(s)
    ELSE PipelineDone(s, NapiErrorWrap(err, "Unable to create fabric vlan"))

\* The callback of napi.createFabricVLAN and the completion of the loop.
CreateFabricVLANCb(s, err) ==
    LET id == s.ctx.freeVlanIds[s.idx] IN
    IF err = NoErr
    THEN CreateFabricNetworkStage(
             [s EXCEPT !.ctx.fabricVlanId = id, !.ctx.fabricVlan = TRUE,
                       !.createdFabricVlan = TRUE])
    ELSE IF err.message = VLAN_IN_USE
    THEN IF s.idx < Len(s.ctx.freeVlanIds)
         THEN CreateFabricVlanTry(s, s.idx + 1)
         ELSE PipelineDone(s,
                  DockerError("No available VLAN for network creation"))
    ELSE PipelineDone(s, NapiErrorWrap(err, "Unable to create fabric vlan"))

\* Stage findFreeFabricVlanId up to the remote call.
FindFreeFabricVlanIdStage(s) ==
    IF s.ctx.fabricVlan THEN CreateFabricVlanStage(s)
    ELSE [s EXCEPT !.pc = "listFabricVLANs",
                   !.calls = Append(@, Call("listFabricVLANs", Undefined))]

\* The callback of napi.listFabricVLANs; vlans is the list of vlan_id.
ListFabricVLANsCb(s, err, vlans) ==
    IF err # NoErr
    THEN PipelineDone(s, NapiErrorWrap(err, "Unable to list fabric vlans"))
    ELSE IF Len(vlans) >= VLAN_ID_LIMIT
    THEN PipelineDone(s, DockerError("No free vlan ids"))
    ELSE LET freeVlanIds == FreeVlanIds(vlans) IN
         IF freeVlanIds = <<AssertionFailed>> THEN [s EXCEPT !.pc = "crashed"]
         ELSE CreateFabricVlanStage(
                  [s EXCEPT !.ctx.freeVlanIds = freeVlanIds])

\* Stage lookupExistingFabricVlan up to the remote call.
LookupExistingFabricVlanStage(s) ==
    IF s.vlanId = Undefined THEN FindFreeFabricVlanIdStage(s)
    ELSE [s EXCEPT !.pc = "getFabricVLAN",
                   !.calls = Append(@, Call("getFabricVLAN", s.vlanId))]

\* The callback of napi.getFabricVLAN.
GetFabricVLANCb(s, err) ==
    IF err # NoErr
    THEN PipelineDone(s, NapiErrorWrap(err, "Unable to find fabric vlan"))
    ELSE FindFreeFabricVlanIdStage(
             [s EXCEPT !.ctx.fabricVlanId = s.vlanId, !.ctx.fabricVlan = TRUE])

\* createNetwork up to its first remote call: the label validation.
CreateNetworkStart(s, label, payload) ==
    LET t == [s EXCEPT !.vlanIdStr = label, !.payload = payload]
        n == JsNumber(label.chars)
    IN  IF ~JsTruthy(label) THEN LookupExistingFabricVlanStage(t)
        ELSE IF label.type # "string"
        THEN Callback(t, ValidationError("must be a string"), <<>>)
        ELSE IF n.nan \/ n.value = RESERVED_VLAN_ID \/ n.value < 0
        THEN Callback(t, ValidationError("Invalid value"), <<>>)
        ELSE LookupExistingFabricVlanStage([t EXCEPT !.vlanId = n.value])

\* One cleanup deletion has completed with dErr; vasync.parallel calls
\* onCleanup once both functions have called next.
CleanupNext(s, op, dErr) ==
    LET t == [s EXCEPT !.pending = @ \ {op},
                       !.cleanupErr = IF @ = NoErr THEN dErr ELSE @]
    IN  IF t.pending = {} THEN OnCleanup(t, t.cleanupErr) ELSE t

\* ------------------------------------------------------ the NAPI service

\* VLAN ids held by the account when the requests arrive.
InitialVlanIdSets == {{}, {0, 2, 3, 1023}}

\* Owner 0 is a third party, otherwise the request that created the VLAN.
Vlan(id, owner) == [vlan_id |-> id, owner |-> owner]

VlanTaken(id) == \E v \in napiVlans : v.vlan_id = id

ServiceUnavailable == NapiError("service unavailable")

\* ------------------------------------------------- createNetwork: actions

\* findNetworkOrPoolByNameOrId before the call.
FindIdle ==
    [pc |-> "idle", name |-> <<>>, strat |-> <<>>, arrival |-> <<>>,
     callbacks |-> <<>>, log |-> <<>>]

Init ==
    /\ napiVlans \in {{Vlan(id, 0) : id \in S} : S \in InitialVlanIdSets}
    /\ otherCreates = 0
    /\ reqs = [r \in Reqs |-> IdleReq]
    /\ find = FindIdle

\* A request arrives: validation and the pipeline up to its first call.
CreateNetwork(r) ==
    /\ reqs[r].pc = "idle"
    /\ \E label \in Labels, payload \in Payloads :
           reqs' = [reqs EXCEPT ![r] = CreateNetworkStart(@, label, payload)]
    /\ UNCHANGED <<napiVlans, otherCreates, find>>

\* getFabricVLAN answers: the vlan when it exists, else an error.
GetFabricVLANDone(r) ==
    /\ reqs[r].pc = "getFabricVLAN"
    /\ \E err \in (IF VlanTaken(reqs[r].vlanId)
                   THEN {NoErr, ServiceUnavailable}
                   ELSE {NapiError("vlan not found")}) :
           reqs' = [reqs EXCEPT ![r] = GetFabricVLANCb(
                           Answered(@, "getFabricVLAN",
                                    IF err = NoErr THEN "ok" ELSE "error"),
                           err)]
    /\ UNCHANGED <<napiVlans, otherCreates, find>>

\* listFabricVLANs answers with the VLANs held at that instant.
ListFabricVLANsDone(r) ==
    /\ reqs[r].pc = "listFabricVLANs"
    /\ LET vlans == ListVlanIds(napiVlans) IN
       \/ reqs' = [reqs EXCEPT ![r] =
                      ListFabricVLANsCb(
                          Answered(@, "listFabricVLANs", "error"),
                          ServiceUnavailable, <<>>)]
       \/ reqs' = [reqs EXCEPT ![r] =
                      ListFabricVLANsCb(
                          [Answered(@, "listFabricVLANs", "ok")
                              EXCEPT !.listed = vlans],
                          NoErr, vlans)]
    /\ UNCHANGED <<napiVlans, otherCreates, find>>

\* createFabricVLAN is atomic in the service: an id already held is
\* rejected, a free id is allocated to the caller.
CreateFabricVLANDone(r) ==
    /\ reqs[r].pc = "createFabricVLAN"
    /\ LET id == reqs[r].ctx.freeVlanIds[reqs[r].idx] IN
       \/ /\ VlanTaken(id)
          /\ reqs' = [reqs EXCEPT ![r] =
                         CreateFabricVLANCb(
                             Answered(@, "createFabricVLAN", "in use"),
                             NapiError(VLAN_IN_USE))]
          /\ UNCHANGED napiVlans
       \/ /\ ~VlanTaken(id)
          /\ reqs' = [reqs EXCEPT ![r] =
                         CreateFabricVLANCb(
                             Answered(@, "createFabricVLAN", "ok"), NoErr)]
          /\ napiVlans' = napiVlans \cup {Vlan(id, r)}
       \/ /\ reqs' = [reqs EXCEPT ![r] =
                         CreateFabricVLANCb(
                             Answered(@, "createFabricVLAN", "error"),
                             ServiceUnavailable)]
          /\ UNCHANGED napiVlans
    /\ UNCHANGED <<otherCreates, find>>

\* createFabricNetwork answers with the new network or an error.
CreateFabricNetworkDone(r) ==
    /\ reqs[r].pc = "createFabricNetwork"
    /\ \/ \E uuid \in NetworkUuids :
              reqs' = [reqs EXCEPT ![r] =
                          CreateFabricNetworkCb(
                              Answered(@, "createFabricNetwork", "ok"),
                              NoErr, uuid)]
       \/ reqs' = [reqs EXCEPT ![r] =
                      CreateFabricNetworkCb(
                          Answered(@, "createFabricNetwork", "error"),
                          ServiceUnavailable, <<>>)]
    /\ UNCHANGED <<napiVlans, otherCreates, find>>

\* One of the deletions of the cleanup completes.
CleanupCallDone(r) ==
    /\ reqs[r].pc = "cleanup"
    /\ \E op \in reqs[r].pending :
         \/ /\ op = "deleteFabricVLAN"
            /\ napiVlans' =
                   {v \in napiVlans : v.vlan_id # reqs[r].ctx.fabricVlanId}
            /\ reqs' = [reqs EXCEPT ![r] =
                           CleanupNext(
                               [Answered(@, op, "ok")
                                   EXCEPT !.vlanDeleted = TRUE],
                               op, NoErr)]
         \/ /\ op = "deleteFabricNetwork"
            /\ reqs' = [reqs EXCEPT ![r] =
                           CleanupNext(Answered(@, op, "ok"), op, NoErr)]
            /\ UNCHANGED napiVlans
         \/ /\ reqs' = [reqs EXCEPT ![r] =
                           CleanupNext(Answered(@, op, "error"), op,
                                       ServiceUnavailable)]
            /\ UNCHANGED napiVlans
    /\ UNCHANGED <<otherCreates, find>>

\* A third party takes the id a request is about to ask for.
OtherCreatesVLAN ==
    /\ otherCreates < MaxOtherCreates
    /\ \E r \in Reqs :
         /\ reqs[r].pc = "createFabricVLAN"
         /\ ~VlanTaken(reqs[r].ctx.freeVlanIds[reqs[r].idx])
         /\ napiVlans' = napiVlans
                \cup {Vlan(reqs[r].ctx.freeVlanIds[reqs[r].idx], 0)}
    /\ otherCreates' = otherCreates + 1
    /\ UNCHANGED <<reqs, find>>

Next ==
    \/ \E r \in Reqs : CreateNetwork(r)
    \/ \E r \in Reqs : GetFabricVLANDone(r)
    \/ \E r \in Reqs : ListFabricVLANsDone(r)
    \/ \E r \in Reqs : CreateFabricVLANDone(r)
    \/ \E r \in Reqs : CreateFabricNetworkDone(r)
    \/ \E r \in Reqs : CleanupCallDone(r)
    \/ OtherCreatesVLAN

Spec == Init /\ [][Next]_vars

\* ---------------------------------------------- createNetwork: properties

\* The calls of operation op issued by a request, in order.
CallsOf(s, op) == SelectSeq(s.calls, LAMBDA c : c.op = op)

\* The errors with which the stage createFabricNetwork fails.
NetworkStageErrors ==
    {NapiErrorWrap(ServiceUnavailable, "Unable to create network"),
     ValidationError("Invalid Subnet or IPRange")}

\* C1: when the stage createFabricNetwork fails after the request created a
\* VLAN, the request issues exactly one deleteFabricVLAN, for the id it
\* created, no deleteFabricNetwork, and the caller receives the error of the
\* stage whatever the deletion answers.
C1_RollbackAfterNetworkFailure ==
    \A r \in Reqs :
        LET s == reqs[r] IN
        (s.createdFabricVlan /\ s.err \in NetworkStageErrors) =>
            /\ s.pc \in {"cleanup", "done"}
            /\ Len(CallsOf(s, "deleteFabricVLAN")) = 1
            /\ CallsOf(s, "deleteFabricVLAN")[1].arg = s.ctx.fabricVlanId
            /\ \E i \in 1..Len(s.calls) :
                   /\ s.calls[i].op = "createFabricVLAN"
                   /\ s.calls[i].arg = s.ctx.fabricVlanId
                   /\ s.calls[i].outcome = "ok"
            /\ Len(CallsOf(s, "deleteFabricNetwork")) = 0
            /\ s.pc = "done" =>
                   s.callbacks = <<[err |-> s.err, result |-> <<>>]>>

\* A request whose network creation failed after it created a VLAN, and whose
\* deletion of that VLAN failed too, has called back.
C1_Witness ==
    \E r \in Reqs :
        /\ reqs[r].pc = "done"
        /\ reqs[r].createdFabricVlan
        /\ reqs[r].err = NapiErrorWrap(ServiceUnavailable,
                                       "Unable to create network")
        /\ reqs[r].cleanupErr # NoErr

\* C2: deleteFabricVLAN is issued only for an id that an earlier
\* createFabricVLAN of the same request allocated; a request whose vlan_id
\* label was resolved by getFabricVLAN issues neither createFabricVLAN nor
\* deleteFabricVLAN.
C2_DeleteOnlyCreatedVlan ==
    \A r \in Reqs :
        LET s == reqs[r] IN
        /\ \A i \in 1..Len(s.calls) :
               s.calls[i].op = "deleteFabricVLAN" =>
                   \E j \in 1..(i - 1) :
                       /\ s.calls[j].op = "createFabricVLAN"
                       /\ s.calls[j].arg = s.calls[i].arg
                       /\ s.calls[j].outcome = "ok"
        /\ (\E i \in 1..Len(s.calls) :
                s.calls[i].op = "getFabricVLAN" /\ s.calls[i].outcome = "ok")
            => /\ Len(CallsOf(s, "createFabricVLAN")) = 0
               /\ Len(CallsOf(s, "deleteFabricVLAN")) = 0

\* One request failed after its label resolved, another issued a deletion.
C2_Witness ==
    \E r1, r2 \in Reqs :
        /\ reqs[r1].pc = "done"
        /\ reqs[r1].ctx.fabricVlan
        /\ reqs[r1].vlanId # Undefined
        /\ reqs[r1].err # NoErr
        /\ Len(CallsOf(reqs[r2], "deleteFabricVLAN")) = 1

\* C3: when createFabricVLAN for a candidate answers 'VLAN ID is already in
\* use' and the call for the next candidate succeeds, the id recorded for the
\* request is that of the candidate that succeeded and no createFabricVLAN
\* call follows it.
C3_ConflictRetry ==
    \A r \in Reqs :
        LET s == reqs[r]
            creates == CallsOf(s, "createFabricVLAN")
        IN  \A k \in 2..Len(creates) :
                (creates[k - 1].outcome = "in use" /\ creates[k].outcome = "ok")
                => /\ s.createdFabricVlan
                   /\ s.ctx.fabricVlanId = creates[k].arg
                   /\ creates[k].arg = s.ctx.freeVlanIds[k]
                   /\ creates[k - 1].arg = s.ctx.freeVlanIds[k - 1]
                   /\ Len(creates) = k

\* A request got a VLAN at a later candidate after a conflict, with further
\* candidates left in its list.
C3_Witness ==
    \E r \in Reqs :
        LET creates == CallsOf(reqs[r], "createFabricVLAN") IN
        /\ Len(creates) >= 2
        /\ creates[Len(creates) - 1].outcome = "in use"
        /\ creates[Len(creates)].outcome = "ok"
        /\ Len(creates) < Len(reqs[r].ctx.freeVlanIds)
        /\ reqs[r].pc = "done"

\* A request holds the VLAN it created until the service has deleted it.
HoldsVlan(r) == reqs[r].createdFabricVlan /\ ~reqs[r].vlanDeleted

\* C4: two concurrent requests never both hold the same VLAN id as the one
\* they created, and the VLAN a request holds is allocated to it.
C4_VlanCreatedByOneRequest ==
    /\ \A r1, r2 \in Reqs :
           (r1 # r2 /\ HoldsVlan(r1) /\ HoldsVlan(r2))
               => reqs[r1].ctx.fabricVlanId # reqs[r2].ctx.fabricVlanId
    /\ \A r \in Reqs :
           HoldsVlan(r) => Vlan(reqs[r].ctx.fabricVlanId, r) \in napiVlans

\* Both requests, without label, hold a VLAN, one after having been refused
\* the id the other holds.
C4_Witness ==
    \E r1, r2 \in Reqs :
        /\ r1 # r2
        /\ HoldsVlan(r1) /\ HoldsVlan(r2)
        /\ reqs[r1].vlanId = Undefined /\ reqs[r2].vlanId = Undefined
        /\ \E i \in 1..Len(reqs[r2].calls) :
               /\ reqs[r2].calls[i].op = "createFabricVLAN"
               /\ reqs[r2].calls[i].arg = reqs[r1].ctx.fabricVlanId
               /\ reqs[r2].calls[i].outcome = "in use"

\* ------------------------------------------------------ getNetworksOrPools

\* name.substr(start, len) and name.substr(start), 0-based.
Substr(str, start, len) == SubSeq(str, start + 1, Min(start + len, Len(str)))

SubstrFrom(str, start) == SubSeq(str, start + 1, Len(str))

\* utils.shortNetworkIdToUuidPrefix: the first 32 characters with the dashes
\* of a uuid put back as far as the characters go.
ShortNetworkIdToUuidPrefix(id) ==
    Substr(id, 0, 8)
        \o (IF Len(id) >= 8 THEN <<"-">> \o Substr(id, 8, 4) ELSE <<>>)
        \o (IF Len(id) >= 12 THEN <<"-">> \o Substr(id, 12, 4) ELSE <<>>)
        \o (IF Len(id) >= 16 THEN <<"-">> \o Substr(id, 16, 4) ELSE <<>>)
        \o (IF Len(id) >= 20 THEN <<"-">> \o Substr(id, 20, 12) ELSE <<>>)

RECURSIVE LdapEscape(_)
\* utils.ldapEscape: the characters of the filter syntax become \xx.
LdapEscape(str) ==
    IF str = <<>> THEN <<>>
    ELSE (CASE Head(str) = "*" -> <<"\\", "2", "a">>
            [] Head(str) = "(" -> <<"\\", "2", "8">>
            [] Head(str) = ")" -> <<"\\", "2", "9">>
            [] Head(str) = "\\" -> <<"\\", "5", "c">>
            [] OTHER -> <<Head(str)>>) \o LdapEscape(Tail(str))

\* The networks and pools the service may list.
NetA == [uuid |-> UuidOf(HalfA)]

NetB == [uuid |-> UuidOf(HalfB)]

\* What a list call answers: an error without list, or a list.
Answer(err, hasRes, res) == [err |-> err, hasRes |-> hasRes, res |-> res]

Answers ==
    {Answer(NapiNotFound, FALSE, <<>>),
     Answer(NapiError("service unavailable"), FALSE, <<>>),
     Answer(NoErr, TRUE, <<>>),
     Answer(NoErr, TRUE, <<NetA>>),
     Answer(NoErr, TRUE, <<NetB>>),
     Answer(NoErr, TRUE, <<NetA, NetB>>)}

\* listParams: exactly one of name and uuid is set.
Params(name, uuid) == [name |-> name, uuid |-> uuid]

\* One search strategy: its call of getNetworksOrPools; answers records what
\* the service answered to each of its calls.
Search(pc, params) ==
    [pc |-> pc, params |-> params, calls |-> <<>>, answers |-> <<>>,
     err |-> NoErr, result |-> <<>>]

ListCall(op, params) == [op |-> op, name |-> params.name, uuid |-> params.uuid]

\* The service has answered the outstanding call of the search.
Recorded(st, ans) == [st EXCEPT !.answers = Append(@, ans)]

\* The completion of tryEach: callback(res.err, res.res).
GnpDone(st, err, res) == [st EXCEPT !.pc = "done", !.err = err, !.result = res]

\* function final
GnpFinal(st) == GnpDone(st, NoErr, <<>>)

IsPrefixFilterNoStarCheck(params) == params.name = <<>>

\* The fallback applies to a uuid filter that ends in '*'.
IsPrefixFilter(params) ==
    /\ params.name = <<>>
    /\ params.uuid[Len(params.uuid)] = "*"

\* function listFiltNetPools up to the remote call
ListFiltNetPools(st) ==
    IF ~IsPrefixFilter(st.params) THEN GnpFinal(st)
    ELSE [st EXCEPT !.pc = "listFiltNetPools",
                    !.calls = Append(@, ListCall("listNetworkPools",
                                                 Params(<<>>, <<>>)))]

\* function listNetPools up to the remote call
ListNetPools(st) ==
    [st EXCEPT !.pc = "listNetPools",
               !.calls = Append(@, ListCall("listNetworkPools", st.params))]

\* function listFiltNets up to the remote call
ListFiltNets(st) ==
    IF ~IsPrefixFilter(st.params) THEN ListNetPools(st)
    ELSE [st EXCEPT !.pc = "listFiltNets",
                    !.calls = Append(@, ListCall("listNetworks",
                                                 Params(<<>>, <<>>)))]

\* function listNets up to the remote call
ListNets(st) ==
    [st EXCEPT !.pc = "listNets",
               !.calls = Append(@, ListCall("listNetworks", st.params))]

\* tryEach: the function called cb with an error, the next one is tried.
TryNext(st) ==
    CASE st.pc = "listNets" -> ListFiltNets(st)
      [] st.pc = "listFiltNets" -> ListNetPools(st)
      [] st.pc = "listNetPools" -> ListFiltNetPools(st)
      [] st.pc = "listFiltNetPools" -> GnpFinal(st)

ListCbErrorFallsThrough(st, ans) ==
    IF ans.err # NoErr \/ Len(ans.res) = 0 THEN TryNext(st)
    ELSE GnpDone(st, NoErr, ans.res)

\* The callback of the filtered list call of listNets and listNetPools.
ListCb(st, ans) ==
    IF ans.hasRes /\ Len(ans.res) = 0 THEN TryNext(st)
    ELSE IF ans.err # NoErr /\ ans.err.statusCode # 404
    THEN GnpDone(st, ans.err, <<>>)
    ELSE IF ans.err # NoErr THEN TryNext(st)
    ELSE GnpDone(st, NoErr, ans.res)

\* uuidPref === p.uuid.substring(0, sz)
MatchesPrefix(uuid, p) ==
    SubSeq(uuid, 1, Len(uuid) - 1) = Substr(p.uuid, 0, Len(uuid) - 1)

\* The callback of the list-all call of listFiltNets and listFiltNetPools;
\* res.filter throws when a 404 left res without value.
ListAllCb(st, ans) ==
    IF ans.hasRes /\ Len(ans.res) = 0 THEN TryNext(st)
    ELSE IF ans.err # NoErr /\ ans.err.statusCode # 404
    THEN GnpDone(st, ans.err, <<>>)
    ELSE IF ~ans.hasRes THEN [st EXCEPT !.pc = "crashed"]
    ELSE LET filtered ==
                 SelectSeq(ans.res, LAMBDA p : MatchesPrefix(st.params.uuid, p))
         IN  IF Len(filtered) > 0 THEN GnpDone(st, NoErr, filtered)
             ELSE TryNext(st)

\* getNetworksOrPools up to its first remote call.
GetNetworksOrPools(params) ==
    IF params.name = <<>> /\ params.uuid = <<>>
    THEN Search("crashed", params)
    ELSE ListNets(Search("start", params))

\* --------------------------------------------- findNetworkOrPoolByNameOrId

FULL_ID_LEN == 64

\* The identifiers asked for: prefixes of two halves and one more character,
\* the empty string, and a name with a character of the filter syntax.
NameLengths == {3, 32, 40, 62, 63, 64, 65}

Names ==
    {SubSeq(x \o y \o <<"a">>, 1, n) :
         x \in {HalfA, HalfB}, y \in {HalfA, HalfB}, n \in NameLengths}
    \cup {<<>>, <<"a", "*">>}

\* A strategy that was skipped answers by setImmediate(cb, null, []).
Immediate == Search("immediate", Params(<<>>, <<>>))

\* A strategy that was not started because an earlier one threw.
NotStarted == Search("notStarted", Params(<<>>, <<>>))

ImpossibleExactIdLengthOnly(name) == Len(name) # FULL_ID_LEN

\* byExactId: name.substr(0, 32) !== name.substr(32)
ImpossibleExactId(name) ==
    Substr(name, 0, HALF_ID_LEN) # SubstrFrom(name, HALF_ID_LEN)

\* function byExactId
ByExactId(name) ==
    IF ImpossibleExactId(name) THEN Immediate
    ELSE GetNetworksOrPools(
             Params(<<>>, LdapEscape(ShortNetworkIdToUuidPrefix(name))))

\* function byName
ByName(name) == GetNetworksOrPools(Params(name, <<>>))

\* byDockerId: the part after 32 characters must be a shorter prefix of the
\* first 31 characters.
ImpossibleDockerId(name) ==
    /\ Len(name) >= HALF_ID_LEN
    /\ LET secondHalf == SubstrFrom(name, HALF_ID_LEN)
           firstHalf == Substr(name, 0, HALF_ID_LEN - 1)
       IN  \/ Len(secondHalf) >= Len(firstHalf)
           \/ secondHalf # Substr(firstHalf, 0, Len(secondHalf))

\* function byDockerId
ByDockerId(name) ==
    IF ImpossibleDockerId(name) THEN Immediate
    ELSE GetNetworksOrPools(
             Params(<<>>, LdapEscape(ShortNetworkIdToUuidPrefix(name))
                              \o <<"*">>))

\* vasync.parallel calls the three functions in turn; an exception thrown by
\* one of them leaves the later ones uncalled.
StartStrategies(name) ==
    LET s1 == ByExactId(name)
        s2 == IF s1.pc = "crashed" THEN NotStarted ELSE ByName(name)
        s3 == IF s1.pc = "crashed" \/ s2.pc = "crashed" THEN NotStarted
              ELSE ByDockerId(name)
    IN  <<s1, s2, s3>>

\* No network: the initial bestMatch.result.
NoNet == [uuid |-> <<>>]

ReduceStepErrorsSkipped(name, acc, op) ==
    IF acc.result # NoNet THEN acc
    ELSE IF op.err # NoErr
    THEN [acc EXCEPT !.err = IF @ = NoErr THEN op.err ELSE @]
    ELSE IF Len(op.result) = 0 THEN acc
    ELSE IF Len(op.result) = 1
    THEN [acc EXCEPT !.result = op.result[1], !.err = NoErr]
    ELSE [acc EXCEPT !.err = AmbiguousDockerNetworkIdPrefixError(name)]

ReduceStepLaterOverrides(name, acc, op) ==
    IF op.err # NoErr THEN [acc EXCEPT !.err = op.err]
    ELSE IF Len(op.result) = 0 THEN acc
    ELSE IF Len(op.result) = 1 THEN [acc EXCEPT !.result = op.result[1]]
    ELSE [acc EXCEPT !.err = AmbiguousDockerNetworkIdPrefixError(name)]

ReduceStepAmbiguousTakesFirst(name, acc, op) ==
    IF acc.err # NoErr \/ acc.result # NoNet THEN acc
    ELSE IF op.err # NoErr THEN [acc EXCEPT !.err = op.err]
    ELSE IF Len(op.result) = 0 THEN acc
    ELSE [acc EXCEPT !.result = op.result[1]]

\* The function given to results.operations.reduce.
ReduceStep(name, acc, op) ==
    IF acc.err # NoErr \/ acc.result # NoNet THEN acc
    ELSE IF op.err # NoErr THEN [acc EXCEPT !.err = op.err]
    ELSE IF Len(op.result) = 0 THEN acc
    ELSE IF Len(op.result) = 1 THEN [acc EXCEPT !.result = op.result[1]]
    ELSE [acc EXCEPT !.err = AmbiguousDockerNetworkIdPrefixError(name)]

OperationsByArrival(f) == [k \in 1..3 |-> f.strat[f.arrival[k]]]

\* results.operations: ordered as the funcs array.
Operations(f) == [k \in 1..3 |-> f.strat[k]]

\* bestMatch: the reduce of results.operations from {err: null, result: null}.
BestMatch(f) ==
    LET ops == Operations(f) IN
    ReduceStep(f.name,
        ReduceStep(f.name,
            ReduceStep(f.name, [err |-> NoErr, result |-> NoNet], ops[1]),
            ops[2]),
        ops[3])

\* The err of vasync.parallel: set when one of the functions failed.
ParallelFailed(f) == \E k \in 1..3 : f.strat[k].err # NoErr

\* callback(err, network) of the resolver
FindCallback(f, err, result, level) ==
    [f EXCEPT !.pc = "done",
              !.callbacks = Append(@, [err |-> err, result |-> result]),
              !.log = @ \o level]

ListedNetworksNotFoundFirst(f) ==
    LET bestMatch == BestMatch(f) IN
    IF bestMatch.result = NoNet
    THEN FindCallback(f, NetworkNotFoundError(f.name), NoNet, <<"info">>)
    ELSE FindCallback(f, NoErr, bestMatch.result, <<"debug">>)

\* function _listedNetworks
ListedNetworks(f) ==
    LET bestMatch == BestMatch(f) IN
    IF bestMatch.err # NoErr
    THEN FindCallback(f, bestMatch.err, NoNet, <<"error">>)
    ELSE IF bestMatch.result = NoNet
    THEN FindCallback(f, NetworkNotFoundError(f.name), NoNet, <<"info">>)
    ELSE FindCallback(f, NoErr, bestMatch.result,
                      IF ParallelFailed(f) THEN <<"warn", "debug">>
                      ELSE <<"debug">>)

\* Strategy i has taken a step to st: an exception ends the process, a
\* completion is recorded and the last one runs _listedNetworks.
StrategyStep(f, i, st) ==
    IF st.pc = "crashed" THEN [f EXCEPT !.pc = "crashed", !.strat[i] = st]
    ELSE IF st.pc = "done"
    THEN LET g == [f EXCEPT !.strat[i] = st, !.arrival = Append(@, i)]
         IN  IF Len(g.arrival) = 3 THEN ListedNetworks(g) ELSE g
    ELSE [f EXCEPT !.strat[i] = st]

InitFind ==
    /\ napiVlans = {}
    /\ otherCreates = 0
    /\ reqs = [r \in Reqs |-> IdleReq]
    /\ find = FindIdle

\* The resolver is called: the three strategies are started.
FindNetworkOrPoolByNameOrId ==
    /\ find.pc = "idle"
    /\ \E name \in Names :
         LET strat == StartStrategies(name) IN
         find' = [find EXCEPT
                     !.name = name,
                     !.strat = strat,
                     !.pc = IF \E k \in 1..3 : strat[k].pc = "crashed"
                            THEN "crashed" ELSE "searching"]
    /\ UNCHANGED <<napiVlans, otherCreates, reqs>>

\* The setImmediate of a skipped strategy fires: cb(null, []).
ImmediateDone(i) ==
    /\ find.pc = "searching"
    /\ find.strat[i].pc = "immediate"
    /\ find' = StrategyStep(find, i, GnpDone(find.strat[i], NoErr, <<>>))
    /\ UNCHANGED <<napiVlans, otherCreates, reqs>>

\* A filtered list call of strategy i is answered.
ListDone(i) ==
    /\ find.pc = "searching"
    /\ find.strat[i].pc \in {"listNets", "listNetPools"}
    /\ \E ans \in Answers :
           find' = StrategyStep(find, i,
                                ListCb(Recorded(find.strat[i], ans), ans))
    /\ UNCHANGED <<napiVlans, otherCreates, reqs>>

\* A list-all call of strategy i is answered.
ListAllDone(i) ==
    /\ find.pc = "searching"
    /\ find.strat[i].pc \in {"listFiltNets", "listFiltNetPools"}
    /\ \E ans \in Answers :
           find' = StrategyStep(find, i,
                                ListAllCb(Recorded(find.strat[i], ans), ans))
    /\ UNCHANGED <<napiVlans, otherCreates, reqs>>

NextFind ==
    \/ FindNetworkOrPoolByNameOrId
    \/ \E i \in 1..3 : ImmediateDone(i)
    \/ \E i \in 1..3 : ListDone(i)
    \/ \E i \in 1..3 : ListAllDone(i)

SpecFind == InitFind /\ [][NextFind]_vars

\* ------------------------------- findNetworkOrPoolByNameOrId: properties

\* The outcome of a strategy decides when it is an error or has a match.
Decisive(op) == op.err # NoErr \/ Len(op.result) > 0

\* The most preferred strategy whose outcome decides, if there is one.
FirstDecisive(f) ==
    {k \in 1..3 : Decisive(f.strat[k])
                    /\ \A j \in 1..(k - 1) : ~Decisive(f.strat[j])}

Delivered(err, result) == [err |-> err, result |-> result]

\* What the preference order 1, 2, 3 gives for the outcomes of the strategies.
Preferred(f) ==
    IF FirstDecisive(f) = {}
    THEN Delivered(NetworkNotFoundError(f.name), NoNet)
    ELSE LET op == f.strat[CHOOSE k \in FirstDecisive(f) : TRUE] IN
         IF op.err # NoErr THEN Delivered(op.err, NoNet)
         ELSE IF Len(op.result) = 1 THEN Delivered(NoErr, op.result[1])
         ELSE Delivered(AmbiguousDockerNetworkIdPrefixError(f.name), NoNet)

\* The case of C5: exact-id failed without match, exact-name has one match.
ExactIdFailedNameMatched ==
    /\ find.pc = "done"
    /\ find.strat[1].err # NoErr
    /\ find.strat[1].result = <<>>
    /\ find.strat[2].err = NoErr
    /\ Len(find.strat[2].result) = 1

\* C5 as claimed: when exact-id completes with an error and no match and
\* exact-name completes without error with one match net, the caller receives
\* net and not the error of exact-id.
C5_AsClaimed ==
    ExactIdFailedNameMatched =>
        find.callbacks = <<Delivered(NoErr, find.strat[2].result[1])>>

\* C5 amended: in that case the caller receives the error of exact-id and no
\* network; an error is kept from the caller only when it is that of a less
\* preferred strategy than the one that matched (exact-id and exact-name
\* without error, exact-name with one match, partial-id failed: the match is
\* returned and a warning logged).
C5_ExactIdErrorSurfaces ==
    /\ ExactIdFailedNameMatched =>
           find.callbacks = <<Delivered(find.strat[1].err, NoNet)>>
    /\ (/\ find.pc = "done"
        /\ find.strat[1].err = NoErr /\ find.strat[1].result = <<>>
        /\ find.strat[2].err = NoErr /\ Len(find.strat[2].result) = 1
        /\ find.strat[3].err # NoErr)
       => /\ find.callbacks = <<Delivered(NoErr, find.strat[2].result[1])>>
          /\ find.log = <<"warn", "debug">>

\* The resolver has answered in the case of C5.
C5_Witness == ExactIdFailedNameMatched /\ Len(find.callbacks) = 1

\* C6: the answer is decided by the first strategy, in the order exact-id,
\* exact-name, partial-id, that has an error or a match: its error, its
\* single match, or the ambiguity error when it has several matches.
C6_FirstDecisiveStrategyDecides ==
    find.pc = "done" =>
        /\ Len(find.callbacks) = 1
        /\ \A k \in FirstDecisive(find) :
               LET op == find.strat[k]
                   cb == find.callbacks[1]
               IN  /\ op.err # NoErr => cb = Delivered(op.err, NoNet)
                   /\ (op.err = NoErr /\ Len(op.result) = 1)
                          => cb = Delivered(NoErr, op.result[1])
                   /\ (op.err = NoErr /\ Len(op.result) > 1)
                          => /\ cb.result = NoNet
                             /\ cb.err.name =
                                    "AmbiguousDockerNetworkIdPrefixError"

\* Exact-name decided with one match while partial-id, after it in the order,
\* failed or matched another network.
C6_Witness ==
    /\ find.pc = "done"
    /\ FirstDecisive(find) = {2}
    /\ Len(find.strat[2].result) = 1
    /\ Decisive(find.strat[3])
    /\ find.callbacks = <<Delivered(NoErr, find.strat[2].result[1])>>

\* C7: the answer is a function of the outcomes of the three strategies alone,
\* whatever the order in which they completed; the callback is invoked once
\* and only after the three strategies have completed.
C7_ArrivalOrderIrrelevant ==
    /\ Len(find.callbacks) <= 1
    /\ find.callbacks # <<>> =>
           /\ find.pc = "done"
           /\ \A k \in 1..3 : find.strat[k].pc = "done"
    /\ find.pc = "done" => find.callbacks = <<Preferred(find)>>

\* Two strategies with different decisive outcomes completed in the order
\* opposite to the preference order.
C7_Witness ==
    /\ find.pc = "done"
    /\ \E i, j \in 1..3 :
         /\ i < j
         /\ find.arrival[i] > find.arrival[j]
         /\ Decisive(find.strat[find.arrival[i]])
         /\ Decisive(find.strat[find.arrival[j]])
         /\ find.strat[find.arrival[i]].err = NoErr
         /\ find.strat[find.arrival[j]].err = NoErr
         /\ find.strat[find.arrival[i]].result
                # find.strat[find.arrival[j]].result

\* C8: when exact-id has two or more matches and no error, the resolver fails
\* with the ambiguity error that carries the identifier, also when exact-name
\* has exactly one match.
C8_AmbiguousExactId ==
    (/\ find.pc = "done"
     /\ find.strat[1].err = NoErr
     /\ Len(find.strat[1].result) >= 2)
    => find.callbacks =
           <<Delivered(AmbiguousDockerNetworkIdPrefixError(find.name), NoNet)>>

\* Exact-id had two matches and exact-name one.
C8_Witness ==
    /\ find.pc = "done"
    /\ find.strat[1].err = NoErr
    /\ Len(find.strat[1].result) = 2
    /\ find.strat[2].err = NoErr
    /\ Len(find.strat[2].result) = 1

\* The three strategies completed without error and without match.
AllStrategiesEmpty ==
    \A k \in 1..3 : find.strat[k].err = NoErr /\ find.strat[k].result = <<>>

\* C9: the resolver fails with NetworkNotFoundError exactly when the three
\* strategies completed without error and without match; otherwise the caller
\* receives one network or another error.
C9_NotFoundIffAllEmpty ==
    find.pc = "done" =>
        LET cb == find.callbacks[1] IN
        /\ (cb.err.name = "NetworkNotFoundError") <=> AllStrategiesEmpty
        /\ AllStrategiesEmpty =>
               cb = Delivered(NetworkNotFoundError(find.name), NoNet)
        /\ ~AllStrategiesEmpty =>
               \/ cb.err = NoErr /\ cb.result # NoNet
               \/ cb.err # NoErr /\ cb.result = NoNet

\* Not found after the four queries of the partial-id strategy all ended in
\* not-found.
C9_Witness ==
    /\ find.pc = "done"
    /\ find.callbacks[1].err.name = "NetworkNotFoundError"
    /\ Len(find.strat[3].calls) = 4

\* The identifier has 64 characters and is a platform id doubled.
IsDoubledId(name) ==
    /\ Len(name) = FULL_ID_LEN
    /\ \A k \in 1..HALF_ID_LEN : name[k] = name[k + HALF_ID_LEN]

\* C10: for an identifier of 64 characters whose halves differ the exact-id
\* strategy issues no remote call and yields zero matches; it issues a remote
\* call only for a 64-character doubled id.
C10_ImpossibleIdShortCircuit ==
    find.pc # "idle" =>
        /\ (Len(find.name) = FULL_ID_LEN /\ ~IsDoubledId(find.name)) =>
               /\ find.strat[1].calls = <<>>
               /\ find.strat[1].pc \in {"immediate", "done"}
               /\ find.strat[1].err = NoErr
               /\ find.strat[1].result = <<>>
        /\ find.strat[1].calls # <<>> => IsDoubledId(find.name)

\* The resolver answered for a 64-character identifier whose halves differ.
C10_Witness ==
    /\ find.pc = "done"
    /\ Len(find.name) = FULL_ID_LEN
    /\ ~IsDoubledId(find.name)
    /\ find.strat[1].pc = "done"

\* The identifier is shorter than a full id and its characters from position
\* 32 on are a prefix of its first 32 characters.
ValidIdPrefix(name) ==
    /\ Len(name) >= 1
    /\ Len(name) < FULL_ID_LEN
    /\ \A k \in (HALF_ID_LEN + 1)..Len(name) : name[k] = name[k - HALF_ID_LEN]

EndsInStar(str) == str # <<>> /\ str[Len(str)] = "*"

\* C11 as claimed: for every identifier of 1 to 63 characters that is a valid
\* prefix of a doubled id, the partial-id strategy issues a prefix search: a
\* first call whose filter is a uuid ending in '*'.
C11_AsClaimed ==
    (find.pc # "idle" /\ ValidIdPrefix(find.name)) =>
        /\ find.strat[3].calls # <<>>
        /\ find.strat[3].calls[1].name = <<>>
        /\ EndsInStar(find.strat[3].calls[1].uuid)

\* An answer that is a not-found outcome: a 404 or an empty list.
NotFoundAnswer(ans) ==
    \/ ans.err # NoErr /\ ans.err.statusCode = 404
    \/ ans.hasRes /\ ans.res = <<>>

\* The not-found outcomes of the queries of a search make it go on: after the
\* last answer it waits for its next query or has completed with an empty
\* array and no error.
ContinuesAfterNotFound(st) ==
    (st.answers # <<>> /\ NotFoundAnswer(st.answers[Len(st.answers)])) =>
        \/ /\ st.pc \in {"listFiltNets", "listNetPools", "listFiltNetPools"}
           /\ Len(st.calls) = Len(st.answers) + 1
        \/ /\ st.pc = "done"
           /\ st.err = NoErr
           /\ st.result = <<>>

\* C18 as claimed: a not-found outcome (404 or empty list) of any query of
\* getNetworksOrPools, the list-all queries of the fallback included, makes the
\* search continue with the next query, and a search whose queries all ended
\* in not-found completes with an empty array and no error.
C18_AsClaimed ==
    find.pc # "idle" => \A i \in 1..3 : ContinuesAfterNotFound(find.strat[i])

\* The calls of a search without name or uuid filter.
ListAllCalls(st) ==
    SelectSeq(st.calls, LAMBDA c : c.name = <<>> /\ c.uuid = <<>>)

\* The calls of operation op of a search that carry its filter.
FilteredCalls(st, op) ==
    SelectSeq(st.calls, LAMBDA c : c.op = op /\ c.name = st.params.name
                                     /\ c.uuid = st.params.uuid)

\* The filter of the search is a uuid that ends in '*'.
UuidStarFilter(params) == params.name = <<>> /\ EndsInStar(params.uuid)

\* C19: a search issues a list-all query only when its filter is a uuid ending
\* in '*'; with a name filter or a uuid filter without trailing '*' it issues
\* at most one filtered listNetworks and one filtered listNetworkPools call
\* and nothing else.
C19_ListAllOnlyForPrefixFilter ==
    find.pc # "idle" =>
        \A i \in 1..3 :
            LET st == find.strat[i] IN
            /\ ListAllCalls(st) # <<>> => UuidStarFilter(st.params)
            /\ ~UuidStarFilter(st.params) =>
                   /\ Len(FilteredCalls(st, "listNetworks")) <= 1
                   /\ Len(FilteredCalls(st, "listNetworkPools")) <= 1
                   /\ Len(st.calls) = Len(FilteredCalls(st, "listNetworks"))
                          + Len(FilteredCalls(st, "listNetworkPools"))

\* The exact-id search (uuid without '*') and the exact-name search both
\* completed after two filtered queries that ended in not-found.
C19_Witness ==
    /\ find.pc = "done"
    /\ find.strat[1].params.uuid # <<>>
    /\ ~EndsInStar(find.strat[1].params.uuid)
    /\ Len(find.strat[1].calls) = 2
    /\ find.strat[2].params.name # <<>>
    /\ Len(find.strat[2].calls) = 2
    /\ \A i \in 1..2, k \in 1..2 : NotFoundAnswer(find.strat[i].answers[k])

\* ------------------------------------- createNetwork: further properties

\* The ids of a list.
Elements(seq) == {seq[i] : i \in 1..Len(seq)}

\* The request computed its candidate list from the answer of listFabricVLANs.
Scanned(s) ==
    \E i \in 1..Len(s.calls) :
        /\ s.calls[i].op = "listFabricVLANs"
        /\ s.calls[i].outcome = "ok"
        /\ Len(s.listed) < VLAN_ID_LIMIT

\* C13 as claimed: for taken ids [0,2,3,1023] the candidate list computed by
\* the scan is [1,4,5,6,7,8,9,10,11,12].
C13_AsClaimed ==
    \A r \in Reqs :
        (Scanned(reqs[r]) /\ reqs[r].listed = <<0, 2, 3, 1023>>) =>
            reqs[r].ctx.freeVlanIds = <<1, 4, 5, 6, 7, 8, 9, 10, 11, 12>>

\* C14 as claimed: no id of the candidate list is one of the taken ids that
\* listFabricVLANs returned.
C14_AsClaimed ==
    \A r \in Reqs :
        Scanned(reqs[r]) =>
            Elements(reqs[r].ctx.freeVlanIds) \cap Elements(reqs[r].listed)
                = {}

\* The request ended with a ValidationError before any remote call.
RejectedBeforeAnyCall(s) ==
    /\ s.pc = "done"
    /\ s.calls = <<>>
    /\ Len(s.callbacks) = 1
    /\ s.callbacks[1].err.name = "ValidationError"
    /\ s.callbacks[1].result = <<>>

\* C15 as claimed: a request whose subnet or IP range is malformed fails with
\* a ValidationError without any remote call and without any deletion call,
\* with or without a vlan_id label.
C15_AsClaimed ==
    \A r \in Reqs :
        (reqs[r].pc # "idle" /\ ~reqs[r].payload.cidrOk) =>
            RejectedBeforeAnyCall(reqs[r])

\* The label is present and is not a string, not numeric, 1 or negative.
BadLabel(label) ==
    /\ label.type # "undefined"
    /\ \/ label.type # "string"
       \/ JsNumber(label.chars).nan
       \/ JsNumber(label.chars).value = RESERVED_VLAN_ID
       \/ JsNumber(label.chars).value < 0

\* C16 as claimed: a request whose vlan_id label is not a string, not numeric,
\* equal to 1 or negative has its callback invoked with a ValidationError and
\* issues no remote call.
C16_AsClaimed ==
    \A r \in Reqs :
        (reqs[r].pc # "idle" /\ BadLabel(reqs[r].vlanIdStr)) =>
            RejectedBeforeAnyCall(reqs[r])

\* The deletion calls a request issued.
DeletionCalls(s) ==
    SelectSeq(s.calls, LAMBDA c : c.op \in {"deleteFabricVLAN",
                                            "deleteFabricNetwork"})

\* C17: a request invokes the caller's callback at most once, and exactly once
\* when it ends; between its arrival and its callback it always waits for the
\* answer of a call it issued; the callback carries either a result and no
\* error or an error and no result; when it is invoked every call of the
\* request, its rollback deletions included, has been answered; after a
\* rollback the error delivered is the error of the pipeline, whatever the
\* deletions answered; a request that succeeds issued no deletion call.
C17_CallbackOnceAfterRollback ==
    \A r \in Reqs :
        LET s == reqs[r] IN
        /\ Len(s.callbacks) <= 1
        /\ (s.pc = "done") <=> (Len(s.callbacks) = 1)
        /\ s.pc \notin {"idle", "done"} =>
               \E i \in 1..Len(s.calls) : s.calls[i].outcome = "pending"
        /\ s.callbacks # <<>> =>
               LET cb == s.callbacks[1] IN
               /\ (cb.err = NoErr) <=> (cb.result # <<>>)
               /\ \A i \in 1..Len(s.calls) : s.calls[i].outcome # "pending"
               /\ DeletionCalls(s) # <<>> => (s.err # NoErr /\ cb.err = s.err)
               /\ cb.err = NoErr => DeletionCalls(s) = <<>>

\* One request failed and its rollback deletion failed too, the other
\* succeeded; both have called back.
C17_Witness ==
    \E r1, r2 \in Reqs :
        /\ reqs[r1].pc = "done"
        /\ reqs[r1].callbacks[1].err # NoErr
        /\ Len(DeletionCalls(reqs[r1])) = 1
        /\ DeletionCalls(reqs[r1])[1].outcome = "error"
        /\ reqs[r2].pc = "done"
        /\ reqs[r2].callbacks[1].err = NoErr

\* -------------------------------------------- createNetwork: the id scan

\* The accounts one request is run against: every set of ids drawn from a
\* pool that mixes ids of one, two and four digits, the runs 0, 2..n, and the
\* account that holds every id.
ScanIdPool == {0, 1, 2, 3, 10, 11, 1023}

FullVlanIds == 0..(VLAN_ID_LIMIT - 1)

ScanVlanIdSets ==
    (SUBSET ScanIdPool)
        \cup {{0} \cup (2..n) : n \in 2..MaxRunEnd}
        \cup {FullVlanIds}

\* Accounts in which some ids are held by more than one VLAN record; the
\* owners above the requests are further third parties.
DuplicateVlans ==
    {{Vlan(id, 0) : id \in S}
         \cup {Vlan(id, Cardinality(Reqs) + k) : id \in D, k \in 1..n} :
     S \in SUBSET {0, 2, 10}, D \in SUBSET {0, 2, 10}, n \in 1..MaxDuplicates}

InitScan ==
    /\ napiVlans \in {{Vlan(id, 0) : id \in S} : S \in ScanVlanIdSets}
                       \cup DuplicateVlans
    /\ otherCreates = 0
    /\ reqs = [r \in Reqs |-> IdleReq]
    /\ find = FindIdle

\* Request 1 runs alone.
NextScan ==
    \/ CreateNetwork(1)
    \/ GetFabricVLANDone(1)
    \/ ListFabricVLANsDone(1)
    \/ CreateFabricVLANDone(1)
    \/ CreateFabricNetworkDone(1)
    \/ CleanupCallDone(1)

SpecScan == InitScan /\ [][NextScan]_vars

\* listFabricVLANs answered the request a list of 1024 or more VLANs.
Exhausted(s) ==
    /\ Len(s.listed) >= VLAN_ID_LIMIT
    /\ \E i \in 1..Len(s.calls) :
           s.calls[i].op = "listFabricVLANs" /\ s.calls[i].outcome = "ok"

\* C12: when listFabricVLANs reports 1024 or more VLANs to a request without
\* vlan_id label, the request fails with the error 'No free vlan ids' and its
\* only remote call is that listFabricVLANs: no createFabricVLAN,
\* createFabricNetwork, deleteFabricVLAN or deleteFabricNetwork.
C12_ExhaustionFailsWithoutCreate ==
    \A r \in Reqs :
        LET s == reqs[r] IN
        (s.vlanIdStr = NoLabel /\ Exhausted(s)) =>
            /\ s.pc = "done"
            /\ s.callbacks =
                   <<[err |-> DockerError("No free vlan ids"),
                      result |-> <<>>]>>
            /\ Len(s.calls) = 1
            /\ \A op \in {"createFabricVLAN", "createFabricNetwork",
                          "deleteFabricVLAN", "deleteFabricNetwork"} :
                   CallsOf(s, op) = <<>>

\* A request without label was answered the 1024 VLANs of a full account.
C12_Witness ==
    /\ reqs[1].vlanIdStr = NoLabel
    /\ Exhausted(reqs[1])
    /\ Len(reqs[1].listed) = VLAN_ID_LIMIT
    /\ reqs[1].pc = "done"

\* C20: the candidate list computed from a list of fewer than 1024 taken ids
\* is strictly ascending, has at most 10 entries, and holds only ids of
\* 0..1023 other than the reserved id 1.
C20_CandidatesAscendingInRange ==
    \A r \in Reqs :
        LET free == reqs[r].ctx.freeVlanIds IN
        Scanned(reqs[r]) =>
            /\ Len(free) <= MAX_FREE_VLAN_IDS
            /\ \A i \in 1..Len(free) :
                   /\ free[i] \in 0..(VLAN_ID_LIMIT - 1)
                   /\ free[i] # RESERVED_VLAN_ID
            /\ \A i \in 1..(Len(free) - 1) : free[i] < free[i + 1]

\* The scan ran over taken ids of one, two and four digits, the reserved id
\* and the id 0 among them, and produced candidates.
C20_Witness ==
    /\ Scanned(reqs[1])
    /\ {0, 1, 10, 1023} \subseteq Elements(reqs[1].listed)
    /\ Len(reqs[1].ctx.freeVlanIds) = MAX_FREE_VLAN_IDS

\* ------------------------------------ createNetwork: the candidate loop

\* C21: at most one createFabricVLAN call of a request is outstanding, and it
\* is the last one issued; the k-th call is for the k-th candidate, so the
\* calls follow the ascending order of the list and no candidate is tried
\* twice; a call that fails with an error other than 'VLAN ID is already in
\* use' is the last one, and the pipeline fails with that error wrapped.
C21_SequentialCandidateLoop ==
    \A r \in Reqs :
        LET s == reqs[r]
            creates == CallsOf(s, "createFabricVLAN")
        IN  /\ \A k \in 1..Len(creates) :
                   /\ creates[k].arg = s.ctx.freeVlanIds[k]
                   /\ creates[k].outcome = "pending" => k = Len(creates)
                   /\ creates[k].outcome = "error" =>
                          /\ k = Len(creates)
                          /\ s.pc \in {"cleanup", "done"}
                          /\ s.err = NapiErrorWrap(ServiceUnavailable,
                                         "Unable to create fabric vlan")
            /\ \A j, k \in 1..Len(creates) :
                   j < k => creates[j].arg < creates[k].arg

\* A request was refused its first candidate, failed on the second with
\* another error, and called back with that error while candidates were left.
C21_Witness ==
    \E r \in Reqs :
        LET creates == CallsOf(reqs[r], "createFabricVLAN") IN
        /\ Len(creates) = 2
        /\ creates[1].outcome = "in use"
        /\ creates[2].outcome = "error"
        /\ Len(reqs[r].ctx.freeVlanIds) > 2
        /\ reqs[r].pc = "done"
        /\ reqs[r].callbacks[1].err.name = "NapiWrappedError"

\* C24: no request ever issues deleteFabricNetwork: a request records a fabric
\* network only when its last stage succeeded, and then it has called back
\* without error.
C24_NetworkNeverDeleted ==
    \A r \in Reqs :
        LET s == reqs[r] IN
        /\ CallsOf(s, "deleteFabricNetwork") = <<>>
        /\ "deleteFabricNetwork" \notin s.pending
        /\ s.ctx.fabricNetwork # <<>> =>
               /\ s.pc = "done"
               /\ s.err = NoErr
               /\ s.callbacks =
                      <<[err |-> NoErr,
                         result |-> NetworkUuidToDockerId(s.ctx.fabricNetwork)]>>

\* One request created its network; the other was refused by
\* createFabricNetwork and completed its rollback, which deleted its VLAN.
C24_Witness ==
    \E r1, r2 \in Reqs :
        /\ reqs[r1].ctx.fabricNetwork # <<>>
        /\ reqs[r2].pc = "done"
        /\ \E i \in 1..Len(reqs[r2].calls) :
               /\ reqs[r2].calls[i].op = "createFabricNetwork"
               /\ reqs[r2].calls[i].outcome = "error"
        /\ reqs[r2].vlanDeleted

\* ------------------------------------ getNetworksOrPools: query order

\* The queries of a search in the order of tryEach: filtered networks,
\* list-all networks, filtered pools, list-all pools; the list-all queries
\* exist only for a uuid filter that ends in '*'.
ExpectedCalls(params) ==
    LET filtered(op) == [op |-> op, name |-> params.name, uuid |-> params.uuid]
        listAll(op) == [op |-> op, name |-> <<>>, uuid |-> <<>>]
    IN  IF UuidStarFilter(params)
        THEN <<filtered("listNetworks"), listAll("listNetworks"),
               filtered("listNetworkPools"), listAll("listNetworkPools")>>
        ELSE <<filtered("listNetworks"), filtered("listNetworkPools")>>

\* The match list of the k-th answer: the list itself for a filtered query,
\* its entries whose uuid starts with the prefix for a list-all query.
MatchList(st, k) ==
    LET n == Len(st.params.uuid) - 1 IN
    IF st.calls[k].name = <<>> /\ st.calls[k].uuid = <<>>
    THEN SelectSeq(st.answers[k].res,
                   LAMBDA p : SubSeq(p.uuid, 1, Min(n, Len(p.uuid)))
                                  = SubSeq(st.params.uuid, 1, n))
    ELSE st.answers[k].res

\* The k-th answer is an error other than a 404.
ErrorAnswer(st, k) ==
    st.answers[k].err # NoErr /\ st.answers[k].err.statusCode # 404

\* The k-th answer is a non-empty match list.
MatchAnswer(st, k) ==
    st.answers[k].err = NoErr /\ st.answers[k].hasRes /\ MatchList(st, k) # <<>>

\* C23: a search issues its queries one at a time in the order filtered
\* networks, list-all networks, filtered pools, list-all pools; the first
\* answer that is a non-empty match list or an error other than a 404 is the
\* last one: the search has completed with that match list or that error and
\* issued no later query.
C23_QueriesInOrderFirstDecides ==
    find.pc # "idle" =>
        \A i \in 1..3 :
            LET st == find.strat[i] IN
            /\ Len(st.calls) <= Len(ExpectedCalls(st.params))
            /\ st.calls = SubSeq(ExpectedCalls(st.params), 1, Len(st.calls))
            /\ Len(st.answers) <= Len(st.calls)
            /\ Len(st.calls) <= Len(st.answers) + 1
            /\ \A k \in 1..Len(st.answers) :
                   /\ (ErrorAnswer(st, k) \/ MatchAnswer(st, k)) =>
                          /\ k = Len(st.calls)
                          /\ st.pc = "done"
                   /\ ErrorAnswer(st, k) =>
                          st.err = st.answers[k].err /\ st.result = <<>>
                   /\ MatchAnswer(st, k) =>
                          st.err = NoErr /\ st.result = MatchList(st, k)

\* The list-all networks query of a search found a match and no pool query
\* was issued, and another search was ended by an error of its first query.
C23_Witness ==
    /\ find.pc = "done"
    /\ \E i, j \in 1..3 :
        /\ find.strat[i].pc = "done"
        /\ Len(find.strat[i].calls) = 2
        /\ find.strat[i].calls[2].uuid = <<>>
        /\ find.strat[i].result # <<>>
        /\ find.strat[j].pc = "done"
        /\ Len(find.strat[j].calls) = 1
        /\ find.strat[j].err # NoErr

\* ------------------------------- createNetwork: candidates all refused

\* createFabricVLAN was called for every candidate of the list and each call
\* was refused with 'VLAN ID is already in use'.
AllCandidatesInUse(s) ==
    LET creates == CallsOf(s, "createFabricVLAN") IN
    /\ Len(creates) > 0
    /\ Len(creates) = Len(s.ctx.freeVlanIds)
    /\ \A k \in 1..Len(creates) : creates[k].outcome = "in use"

\* C22: when createFabricVLAN is refused with 'VLAN ID is already in use' for
\* every candidate, the request fails with the error 'No available VLAN for
\* network creation' and issues neither createFabricNetwork nor a deletion.
C22_AllCandidatesRefused ==
    \A r \in Reqs :
        LET s == reqs[r] IN
        AllCandidatesInUse(s) =>
            /\ s.pc = "done"
            /\ s.callbacks =
                   <<[err |-> DockerError(
                                  "No available VLAN for network creation"),
                      result |-> <<>>]>>
            /\ CallsOf(s, "createFabricNetwork") = <<>>
            /\ DeletionCalls(s) = <<>>

\* The ten candidates of a request were all refused.
C22_Witness ==
    /\ AllCandidatesInUse(reqs[1])
    /\ Len(CallsOf(reqs[1], "createFabricVLAN")) = MAX_FREE_VLAN_IDS
    /\ reqs[1].pc = "done"

\* --------------------------------------- createNetwork: the assertions

\* C25: whenever the scan has run over a list of fewer than 1024 VLANs its
\* candidate list is not empty, and no request stops on a failed assertion:
\* neither on ctx.freeVlanIds.length > 0 at the start of the stage
\* createFabricVlan nor on takenIdx < 1024 in the loop that skips duplicates.
C25_CandidatesNeverEmpty ==
    \A r \in Reqs :
        /\ reqs[r].pc # "crashed"
        /\ Scanned(reqs[r]) => Len(reqs[r].ctx.freeVlanIds) > 0

\* The scan ran over a list that names the id 0 three times, so that the loop
\* that skips duplicates ran twice, and the request went on to its callback.
C25_Witness ==
    /\ Scanned(reqs[1])
    /\ Len(reqs[1].listed) >= 3
    /\ \A i \in 1..3 : reqs[1].listed[i] = 0
    /\ reqs[1].pc = "done"
    /\ CallsOf(reqs[1], "createFabricVLAN") # <<>>

\* ------------------------------------------- createNetwork: termination

\* Every remote call that request 1 issued is eventually answered.
ScanFairness ==
    /\ WF_vars(GetFabricVLANDone(1))
    /\ WF_vars(ListFabricVLANsDone(1))
    /\ WF_vars(CreateFabricVLANDone(1))
    /\ WF_vars(CreateFabricNetworkDone(1))
    /\ WF_vars(CleanupCallDone(1))

SpecLive == InitScan /\ [][NextScan]_vars /\ ScanFairness

\* The calls a request may issue: ten createFabricVLAN, one
\* createFabricNetwork, one deleteFabricVLAN.
WithinCallBounds(s) ==
    /\ Len(CallsOf(s, "createFabricVLAN")) <= MAX_FREE_VLAN_IDS
    /\ Len(CallsOf(s, "createFabricNetwork")) <= 1
    /\ Len(CallsOf(s, "deleteFabricVLAN")) <= 1

\* C26: when every remote call is eventually answered, a request that has
\* arrived eventually invokes the caller's callback, and it never issues more
\* than 10 createFabricVLAN calls, one createFabricNetwork call and one
\* deleteFabricVLAN call.
C26_EventuallyCallsBack ==
    /\ [](\A r \in Reqs : WithinCallBounds(reqs[r]))
    /\ \A r \in Reqs :
           (reqs[r].pc # "idle") ~>
               (reqs[r].pc = "done" /\ Len(reqs[r].callbacks) = 1)

\* A request called back after ten createFabricVLAN calls, of which the last
\* gave it a VLAN, a createFabricNetwork call that failed and the
\* deleteFabricVLAN call of its rollback.
C26_Witness ==
    /\ reqs[1].pc = "done"
    /\ Len(CallsOf(reqs[1], "createFabricVLAN")) = MAX_FREE_VLAN_IDS
    /\ Len(CallsOf(reqs[1], "createFabricNetwork")) = 1
    /\ Len(CallsOf(reqs[1], "deleteFabricVLAN")) = 1
    /\ Len(reqs[1].callbacks) = 1

====
